---- MODULE Spec2Model ----
(***************************************************************************)
(* Model of the two maintenance scripts of GraphRAGEval:                   *)
(*   create_thread_relationships.py  (REPLIES_TO / BELONGS_TO_THREAD)      *)
(*   create_indexes.py               (vector indexes)                      *)
(* Strings are sequences of one-character strings, so that STARTS WITH,    *)
(* substring and + are computed as Cypher computes them.                   *)
(***************************************************************************)
EXTENDS Integers, Sequences, FiniteSets, TLC

VARIABLES
    nodes,              \* the :RedditContent nodes: id -> [parent_id, link_id]
    REPLIES_TO,         \* <<child, parent>> -> number of REPLIES_TO edges
    BELONGS_TO_THREAD,  \* <<comment, thread>> -> number of BELONGS_TO_THREAD edges
    indexes,            \* the vector indexes of the store (set of records)
    pc,                 \* position inside the running function ("idle": not running)
    ret,                \* the value the function is about to return
    outcome,            \* what the last call gave its caller
    replies_count,      \* local replies_count of the current run (-1: not set)
    thread_count,       \* local thread_count of the current run (-1: not set)
    replies_added,      \* edges the reply query added in the current run
    threads_added,      \* edges the thread query added in the current run
    runs,               \* calls made so far
    completed           \* calls that returned True so far

vars == <<nodes, REPLIES_TO, BELONGS_TO_THREAD, indexes, pc, ret, outcome,
          replies_count, thread_count, replies_added, threads_added, runs,
          completed>>

\* Number of calls of a script in one behaviour.
MaxRuns == 2

(***************************************************************************)
(* Strings                                                                 *)
(***************************************************************************)
NULL == <<"NULL">>
EmptyStr == <<>>
Sep == <<"_">>
T1 == <<"t", "1", "_">>
T3 == <<"t", "3", "_">>

\* Cypher: s STARTS WITH prefix
StartsWith(s, prefix) ==
    /\ Len(prefix) <= Len(s)
    /\ SubSeq(s, 1, Len(prefix)) = prefix

\* Cypher: substring(s, start), zero-based start, to the end of s
Substring(s, start) == SubSeq(s, start + 1, Len(s))

\* CASE of the reply query: strips 't1_', else 't3_', else nothing
ProcessedParentId(parent_id) ==
    IF StartsWith(parent_id, T1) THEN Substring(parent_id, 3)
    ELSE IF StartsWith(parent_id, T3) THEN Substring(parent_id, 3)
    ELSE parent_id

\* CASE of the thread query: strips 't3_' only
ProcessedThreadId(link_id) ==
    IF StartsWith(link_id, T3) THEN Substring(link_id, 3)
    ELSE link_id

Ids == DOMAIN nodes

\* WHERE child.parent_id IS NOT NULL AND <> child.id AND <> ""
ReplyChild(child) ==
    /\ nodes[child].parent_id # NULL
    /\ nodes[child].parent_id # child
    /\ nodes[child].parent_id # EmptyStr

\* WHERE comment.link_id IS NOT NULL AND <> comment.id AND <> ""
ThreadComment(comment) ==
    /\ nodes[comment].link_id # NULL
    /\ nodes[comment].link_id # comment
    /\ nodes[comment].link_id # EmptyStr

\* Variant: the resolver without "AND parent.id <> child.id"
ParentMatchesNoSelfCheck(child, processed_parent_id, parent) ==
    StartsWith(parent, processed_parent_id \o Sep)

\* Variant: the resolver matching on the raw parent_id instead of the
\* processed fragment followed by '_'
ParentMatchesRaw(child, processed_parent_id, parent) ==
    /\ StartsWith(parent, nodes[child].parent_id)
    /\ parent # child

\* Variant: the resolver without the separator after the fragment
ParentMatchesNoSep(child, processed_parent_id, parent) ==
    /\ StartsWith(parent, processed_parent_id)
    /\ parent # child

\* WHERE parent.id STARTS WITH processed_parent_id + '_' AND parent.id <> child.id
ParentMatches(child, processed_parent_id, parent) ==
    /\ StartsWith(parent, processed_parent_id \o Sep)
    /\ parent # child

\* WHERE thread.id STARTS WITH processed_thread_id + '_' AND thread.id <> comment.id
ThreadMatches(comment, processed_thread_id, thread) ==
    /\ StartsWith(thread, processed_thread_id \o Sep)
    /\ thread # comment

\* The rows of the reply query that reach MERGE: one per (child, parent) match
ReplyRows ==
    {row \in Ids \X Ids :
        /\ ReplyChild(row[1])
        /\ ParentMatches(row[1], ProcessedParentId(nodes[row[1]].parent_id), row[2])}

\* The rows of the thread query that reach MERGE
ThreadRows ==
    {row \in Ids \X Ids :
        /\ ThreadComment(row[1])
        /\ ThreadMatches(row[1], ProcessedThreadId(nodes[row[1]].link_id), row[2])}

\* Variant: CREATE in place of MERGE, a new edge for every row
MergeCreate(edges, rows) ==
    [e \in DOMAIN edges |-> IF e \in rows THEN edges[e] + 1 ELSE edges[e]]

\* MERGE (a)-[:R]->(b) for every row: creates the edge only where none exists
Merge(edges, rows) ==
    [e \in DOMAIN edges |-> IF e \in rows /\ edges[e] = 0 THEN 1 ELSE edges[e]]

\* RETURN count(x): the number of rows, whether MERGE created or matched
CountRows(rows) == Cardinality(rows)

\* Number of edges in an edge bag
RECURSIVE SumOver(_, _)
SumOver(edges, S) ==
    IF S = {} THEN 0
    ELSE LET e == CHOOSE x \in S : TRUE
         IN edges[e] + SumOver(edges, S \ {e})

EdgeCount(edges) == SumOver(edges, DOMAIN edges)

(***************************************************************************)
(* The graphs a run may find in the store.  Nodes are created by the       *)
(* ingestion side only; the scripts never add, remove or rewrite a node.   *)
(***************************************************************************)
SELF == <<"SELF">>

\* A reference slot of a node: SELF stands for the node's own id
Ref(slot, id) == IF slot = SELF THEN id ELSE slot

Graphs(universe, refs) ==
    UNION {{[n \in S |-> [parent_id |-> Ref(f[n][1], n),
                          link_id   |-> Ref(f[n][2], n)]] :
                f \in [S -> refs \X refs]} :
           S \in SUBSET universe}

\* Ids sharing a fragment ("ab") beside an id whose fragment is a proper
\* prefix of it ("a")
PrefixIds == {<<"a", "_", "1">>, <<"a", "b", "_", "1">>, <<"a", "b", "_", "2">>}
PrefixRefs == {NULL, <<"a">>, <<"t", "1", "_", "a", "b">>, <<"t", "3", "_", "a", "b">>}

\* References that are empty, bare prefixes, the node's own id, or a
\* fragment that prefix-matches the node's own id
SkipIds == {<<"_", "1">>, <<"a", "_", "1">>}
SkipRefs == {NULL, EmptyStr, T1, T3, SELF, <<"a">>}

\* The three-node thread t3_100 <- t1_100_1 <- t1_100_2
Id_t3_100 == <<"t", "3", "_", "1", "0", "0">>
Id_t1_100_1 == <<"t", "1", "_", "1", "0", "0", "_", "1">>
Id_t1_100_2 == <<"t", "1", "_", "1", "0", "0", "_", "2">>
EndToEndGraph ==
    (Id_t3_100 :> [parent_id |-> NULL, link_id |-> NULL]) @@
    (Id_t1_100_1 :> [parent_id |-> Id_t3_100, link_id |-> Id_t3_100]) @@
    (Id_t1_100_2 :> [parent_id |-> Id_t1_100_1, link_id |-> Id_t3_100])

\* A store without :RedditContent nodes
NoNodes == [n \in {} |-> [parent_id |-> NULL, link_id |-> NULL]]

(***************************************************************************)
(* create_thread_relationships()                                           *)
(***************************************************************************)
Init ==
    /\ nodes \in Graphs(PrefixIds, PrefixRefs) \cup Graphs(SkipIds, SkipRefs)
                 \cup {EndToEndGraph}
    /\ REPLIES_TO = [e \in (DOMAIN nodes) \X (DOMAIN nodes) |-> 0]
    /\ BELONGS_TO_THREAD = [e \in (DOMAIN nodes) \X (DOMAIN nodes) |-> 0]
    /\ indexes = {}
    /\ pc = "idle"
    /\ ret = "none"
    /\ outcome = "none"
    /\ replies_count = -1
    /\ thread_count = -1
    /\ replies_added = 0
    /\ threads_added = 0
    /\ runs = 0
    /\ completed = 0

\* The caller invokes create_thread_relationships()
Call ==
    /\ pc = "idle"
    /\ runs < MaxRuns
    /\ runs' = runs + 1
    /\ pc' = "driver"
    /\ ret' = "none"
    /\ outcome' = "pending"
    /\ replies_count' = -1
    /\ thread_count' = -1
    /\ replies_added' = 0
    /\ threads_added' = 0
    /\ UNCHANGED <<nodes, REPLIES_TO, BELONGS_TO_THREAD, indexes, completed>>

\* driver = GraphDatabase.driver(...) returns
DriverOk ==
    /\ pc = "driver"
    /\ pc' = "session"
    /\ UNCHANGED <<nodes, REPLIES_TO, BELONGS_TO_THREAD, indexes, ret, outcome,
                   replies_count, thread_count, replies_added, threads_added,
                   runs, completed>>

\* GraphDatabase.driver(...) raises: the call stands before the try block, so
\* neither the except clause nor the finally clause applies
DriverRaises ==
    /\ pc = "driver"
    /\ pc' = "idle"
    /\ outcome' = "raised"
    /\ UNCHANGED <<nodes, REPLIES_TO, BELONGS_TO_THREAD, indexes, ret,
                   replies_count, thread_count, replies_added, threads_added,
                   runs, completed>>

\* with driver.session() as session: succeeds
SessionOk ==
    /\ pc = "session"
    /\ pc' = "reply"
    /\ UNCHANGED <<nodes, REPLIES_TO, BELONGS_TO_THREAD, indexes, ret, outcome,
                   replies_count, thread_count, replies_added, threads_added,
                   runs, completed>>

\* driver.session() raises inside the try block
SessionRaises ==
    /\ pc = "session"
    /\ pc' = "except"
    /\ UNCHANGED <<nodes, REPLIES_TO, BELONGS_TO_THREAD, indexes, ret, outcome,
                   replies_count, thread_count, replies_added, threads_added,
                   runs, completed>>

\* The reply query runs and its single row is read
ReplyPass ==
    /\ pc = "reply"
    /\ REPLIES_TO' = Merge(REPLIES_TO, ReplyRows)
    /\ replies_count' = CountRows(ReplyRows)
    /\ replies_added' = EdgeCount(REPLIES_TO') - EdgeCount(REPLIES_TO)
    /\ pc' = "thread"
    /\ UNCHANGED <<nodes, BELONGS_TO_THREAD, indexes, ret, outcome, thread_count,
                   threads_added, runs, completed>>

\* The reply query raises.  It is one auto-commit transaction: either the
\* store rejected it (nothing written), or it was committed and reading the
\* result failed (all of its edges written)
ReplyRaises ==
    /\ pc = "reply"
    /\ \E committed \in BOOLEAN :
          REPLIES_TO' = IF committed THEN Merge(REPLIES_TO, ReplyRows)
                        ELSE REPLIES_TO
    /\ replies_added' = EdgeCount(REPLIES_TO') - EdgeCount(REPLIES_TO)
    /\ pc' = "except"
    /\ UNCHANGED <<nodes, BELONGS_TO_THREAD, indexes, ret, outcome, replies_count,
                   thread_count, threads_added, runs, completed>>

\* The thread query runs and its single row is read; the with block ends
ThreadPass ==
    /\ pc = "thread"
    /\ BELONGS_TO_THREAD' = Merge(BELONGS_TO_THREAD, ThreadRows)
    /\ thread_count' = CountRows(ThreadRows)
    /\ threads_added' = EdgeCount(BELONGS_TO_THREAD') - EdgeCount(BELONGS_TO_THREAD)
    /\ ret' = "True"
    /\ pc' = "finally"
    /\ UNCHANGED <<nodes, REPLIES_TO, indexes, outcome, replies_count,
                   replies_added, runs, completed>>

\* The thread query raises, as the reply query may
ThreadRaises ==
    /\ pc = "thread"
    /\ \E committed \in BOOLEAN :
          BELONGS_TO_THREAD' = IF committed THEN Merge(BELONGS_TO_THREAD, ThreadRows)
                               ELSE BELONGS_TO_THREAD
    /\ threads_added' = EdgeCount(BELONGS_TO_THREAD') - EdgeCount(BELONGS_TO_THREAD)
    /\ pc' = "except"
    /\ UNCHANGED <<nodes, REPLIES_TO, indexes, ret, outcome, replies_count,
                   thread_count, replies_added, runs, completed>>

\* except Exception as e: print(...); return False
Except ==
    /\ pc = "except"
    /\ ret' = "False"
    /\ pc' = "finally"
    /\ UNCHANGED <<nodes, REPLIES_TO, BELONGS_TO_THREAD, indexes, outcome,
                   replies_count, thread_count, replies_added, threads_added,
                   runs, completed>>

\* finally: driver.close(); the function returns ret
Finally ==
    /\ pc = "finally"
    /\ outcome' = ret
    /\ completed' = IF ret = "True" THEN completed + 1 ELSE completed
    /\ pc' = "idle"
    /\ UNCHANGED <<nodes, REPLIES_TO, BELONGS_TO_THREAD, indexes, ret,
                   replies_count, thread_count, replies_added, threads_added, runs>>

Next ==
    \/ Call
    \/ DriverOk
    \/ DriverRaises
    \/ SessionOk
    \/ SessionRaises
    \/ ReplyPass
    \/ ReplyRaises
    \/ ThreadPass
    \/ ThreadRaises
    \/ Except
    \/ Finally

Spec == Init /\ [][Next]_vars

(***************************************************************************)
(* create_vector_indexes()                                                 *)
(***************************************************************************)
Dimensions == 1024

\* CREATE VECTOR INDEX reddit_content_embeddings ... FOR (r:RedditContent)
\* ON r.content_embedding, 1024 dimensions, cosine
ContentIndex ==
    [name |-> "reddit_content_embeddings", label |-> "RedditContent",
     property |-> "content_embedding", dimensions |-> Dimensions,
     similarity |-> "cosine"]

\* CREATE VECTOR INDEX topic_embeddings ... FOR (t:Topic) ON t.embedding,
\* 1024 dimensions, cosine
TopicIndex ==
    [name |-> "topic_embeddings", label |-> "Topic",
     property |-> "embedding", dimensions |-> Dimensions,
     similarity |-> "cosine"]

\* IF NOT EXISTS: nothing happens when an index of that name, or a vector
\* index on that label and property, is already there, whatever its options
IndexExists(existing, request) ==
    \E i \in existing :
        \/ i.name = request.name
        \/ (i.label = request.label /\ i.property = request.property)

\* CREATE VECTOR INDEX ... IF NOT EXISTS
CreateIfNotExists(existing, request) ==
    IF IndexExists(existing, request) THEN existing ELSE existing \cup {request}

\* Vector indexes the store may hold before the script runs
IndexUniverse ==
    [name : {"reddit_content_embeddings", "topic_embeddings", "legacy_embeddings"},
     label : {"RedditContent", "Topic"},
     property : {"content_embedding", "embedding"},
     dimensions : {Dimensions, 384},
     similarity : {"cosine", "euclidean"}]

\* The store keeps index names unique, and one vector index per label and property
WellFormedIndexes(existing) ==
    \A i, j \in existing :
        (i.name = j.name \/ (i.label = j.label /\ i.property = j.property)) => i = j

InitIndexes ==
    /\ nodes = NoNodes
    /\ REPLIES_TO = [e \in (DOMAIN nodes) \X (DOMAIN nodes) |-> 0]
    /\ BELONGS_TO_THREAD = [e \in (DOMAIN nodes) \X (DOMAIN nodes) |-> 0]
    /\ indexes \in {existing \in {{}} \cup {{i, j} : i, j \in IndexUniverse} :
                       WellFormedIndexes(existing)}
    /\ pc = "idle"
    /\ ret = "none"
    /\ outcome = "none"
    /\ replies_count = -1
    /\ thread_count = -1
    /\ replies_added = 0
    /\ threads_added = 0
    /\ runs = 0
    /\ completed = 0

graph_vars == <<nodes, REPLIES_TO, BELONGS_TO_THREAD, replies_count, thread_count,
                replies_added, threads_added>>

\* The caller invokes create_vector_indexes()
CallIndexes ==
    /\ pc = "idle"
    /\ runs < MaxRuns
    /\ runs' = runs + 1
    /\ pc' = "idx_driver"
    /\ ret' = "none"
    /\ outcome' = "pending"
    /\ UNCHANGED <<graph_vars, indexes, completed>>

\* driver = GraphDatabase.driver(...) returns
IndexDriverOk ==
    /\ pc = "idx_driver"
    /\ pc' = "idx_session"
    /\ UNCHANGED <<graph_vars, indexes, ret, outcome, runs, completed>>

\* GraphDatabase.driver(...) raises before the try block
IndexDriverRaises ==
    /\ pc = "idx_driver"
    /\ pc' = "idle"
    /\ outcome' = "raised"
    /\ UNCHANGED <<graph_vars, indexes, ret, runs, completed>>

\* with driver.session() as session: succeeds
IndexSessionOk ==
    /\ pc = "idx_session"
    /\ pc' = "idx_content"
    /\ UNCHANGED <<graph_vars, indexes, ret, outcome, runs, completed>>

\* driver.session() raises inside the try block
IndexSessionRaises ==
    /\ pc = "idx_session"
    /\ pc' = "idx_except"
    /\ UNCHANGED <<graph_vars, indexes, ret, outcome, runs, completed>>

\* The first session.run: the content index
CreateContentIndex ==
    /\ pc = "idx_content"
    /\ indexes' = CreateIfNotExists(indexes, ContentIndex)
    /\ pc' = "idx_topic"
    /\ UNCHANGED <<graph_vars, ret, outcome, runs, completed>>

\* The first session.run raises (the store rejects or cannot be reached)
ContentIndexRaises ==
    /\ pc = "idx_content"
    /\ pc' = "idx_except"
    /\ UNCHANGED <<graph_vars, indexes, ret, outcome, runs, completed>>

\* The second session.run: the topic index; the with block ends
CreateTopicIndex ==
    /\ pc = "idx_topic"
    /\ indexes' = CreateIfNotExists(indexes, TopicIndex)
    /\ ret' = "True"
    /\ pc' = "idx_finally"
    /\ UNCHANGED <<graph_vars, outcome, runs, completed>>

\* The second session.run raises
TopicIndexRaises ==
    /\ pc = "idx_topic"
    /\ pc' = "idx_except"
    /\ UNCHANGED <<graph_vars, indexes, ret, outcome, runs, completed>>

\* except Exception as e: print(...); return False
IndexExcept ==
    /\ pc = "idx_except"
    /\ ret' = "False"
    /\ pc' = "idx_finally"
    /\ UNCHANGED <<graph_vars, indexes, outcome, runs, completed>>

\* finally: driver.close(); the function returns ret
IndexFinally ==
    /\ pc = "idx_finally"
    /\ outcome' = ret
    /\ completed' = IF ret = "True" THEN completed + 1 ELSE completed
    /\ pc' = "idle"
    /\ UNCHANGED <<graph_vars, indexes, ret, runs>>

NextIndexes ==
    \/ CallIndexes
    \/ IndexDriverOk
    \/ IndexDriverRaises
    \/ IndexSessionOk
    \/ IndexSessionRaises
    \/ CreateContentIndex
    \/ ContentIndexRaises
    \/ CreateTopicIndex
    \/ TopicIndexRaises
    \/ IndexExcept
    \/ IndexFinally

SpecIndexes == InitIndexes /\ [][NextIndexes]_vars

(***************************************************************************)
(* Properties                                                              *)
(***************************************************************************)
\* Outgoing edges of node n in an edge bag
OutDegree(edges, n) == SumOver(edges, {n} \X Ids)

\* id t begins with fragment f followed by '_', character by character
BeginsAtSeparator(f, t) ==
    /\ Len(t) >= Len(f) + 1
    /\ \A i \in 1..Len(f) : t[i] = f[i]
    /\ t[Len(f) + 1] = "_"

\* The reply pass (thread pass) has run to its end at least once
ReplyPassDone == replies_count >= 0 \/ completed >= 1
ThreadPassDone == thread_count >= 0 \/ completed >= 1

\* C1: once a run of create_thread_relationships has completed, no later
\* step of any further run changes the REPLIES_TO or BELONGS_TO_THREAD
\* edges: a second (third, ...) run on the unchanged nodes adds no edge.
C1_RerunAddsNoEdge ==
    [][completed >= 1 =>
          /\ REPLIES_TO' = REPLIES_TO
          /\ BELONGS_TO_THREAD' = BELONGS_TO_THREAD]_vars

\* C1 witness: two runs have completed and edges of both kinds exist
C1_Witness ==
    /\ completed >= 2
    /\ EdgeCount(REPLIES_TO) > 0
    /\ EdgeCount(BELONGS_TO_THREAD) > 0

\* C2 as stated: every node has at most one outgoing REPLIES_TO edge and at
\* most one outgoing BELONGS_TO_THREAD edge.
C2_AtMostOneEdgePerNode ==
    \A n \in Ids :
        /\ OutDegree(REPLIES_TO, n) <= 1
        /\ OutDegree(BELONGS_TO_THREAD, n) <= 1

\* C2 amended: every node has at most one REPLIES_TO edge and at most one
\* BELONGS_TO_THREAD edge to any one target, and no more outgoing edges of
\* a kind than there are other nodes whose id begins with its fragment
\* followed by '_' (so at most one when at most one id matches).
C2_AtMostOneEdgePerTarget ==
    \A n \in Ids :
        /\ \A t \in Ids : REPLIES_TO[<<n, t>>] <= 1 /\ BELONGS_TO_THREAD[<<n, t>>] <= 1
        /\ OutDegree(REPLIES_TO, n) <=
              Cardinality({t \in Ids \ {n} :
                  BeginsAtSeparator(ProcessedParentId(nodes[n].parent_id), t)})
        /\ OutDegree(BELONGS_TO_THREAD, n) <=
              Cardinality({t \in Ids \ {n} :
                  BeginsAtSeparator(ProcessedThreadId(nodes[n].link_id), t)})

\* C2 witness: after two completed runs a node has two outgoing REPLIES_TO
\* edges, one to each of two ids sharing its fragment
C2_Witness ==
    /\ completed >= 2
    /\ \E n \in Ids : OutDegree(REPLIES_TO, n) = 2

\* C3: no REPLIES_TO or BELONGS_TO_THREAD edge has its source equal to its
\* target, in any state of any sequence of passes.
C3_NoSelfLoop ==
    \A n \in Ids : REPLIES_TO[<<n, n>>] = 0 /\ BELONGS_TO_THREAD[<<n, n>>] = 0

\* C3 witness: both passes have run over a node whose parent_id and link_id
\* normalize to a fragment that prefix-matches the node's own id
C3_Witness ==
    /\ completed >= 1
    /\ \E n \in Ids :
          /\ ReplyChild(n)
          /\ BeginsAtSeparator(ProcessedParentId(nodes[n].parent_id), n)
          /\ ThreadComment(n)
          /\ BeginsAtSeparator(ProcessedThreadId(nodes[n].link_id), n)

\* One failure-free run on the three-node thread has returned
EndToEndDone ==
    /\ nodes = EndToEndGraph
    /\ runs = 1
    /\ pc = "idle"
    /\ outcome = "True"

\* C4 as stated: on the three-node thread one run creates exactly the reply
\* edges t1_100_2->t1_100_1 and t1_100_1->t3_100 and the thread edges
\* t1_100_1->t3_100 and t1_100_2->t3_100, and reports 2 and 2.
C4_EndToEndFourEdges ==
    EndToEndDone =>
        /\ REPLIES_TO =
              [e \in Ids \X Ids |->
                  IF e \in {<<Id_t1_100_2, Id_t1_100_1>>, <<Id_t1_100_1, Id_t3_100>>}
                  THEN 1 ELSE 0]
        /\ BELONGS_TO_THREAD =
              [e \in Ids \X Ids |->
                  IF e \in {<<Id_t1_100_1, Id_t3_100>>, <<Id_t1_100_2, Id_t3_100>>}
                  THEN 1 ELSE 0]
        /\ replies_count = 2
        /\ thread_count = 2

\* C4 amended: on the three-node thread one run creates no edge of either
\* kind and reports 0 and 0 (no id begins with "100_" or "100_1_").
C4_EndToEndNoEdges ==
    EndToEndDone =>
        /\ \A e \in Ids \X Ids : REPLIES_TO[e] = 0 /\ BELONGS_TO_THREAD[e] = 0
        /\ replies_count = 0
        /\ thread_count = 0

\* C4 witness: the run on the three-node thread has returned True
C4_Witness == EndToEndDone

\* C5: an edge n -> t exists only if t's id begins with n's normalized
\* fragment followed by '_' and t is not n; and once a pass has run, every
\* node whose reference passed the pass's filter has an edge to every such t.
C5_PrefixMatchAtSeparator ==
    \A n, t \in Ids :
        /\ REPLIES_TO[<<n, t>>] > 0 =>
              BeginsAtSeparator(ProcessedParentId(nodes[n].parent_id), t) /\ t # n
        /\ BELONGS_TO_THREAD[<<n, t>>] > 0 =>
              BeginsAtSeparator(ProcessedThreadId(nodes[n].link_id), t) /\ t # n
        /\ (/\ ReplyPassDone
            /\ ReplyChild(n)
            /\ BeginsAtSeparator(ProcessedParentId(nodes[n].parent_id), t)
            /\ t # n) => REPLIES_TO[<<n, t>>] > 0
        /\ (/\ ThreadPassDone
            /\ ThreadComment(n)
            /\ BeginsAtSeparator(ProcessedThreadId(nodes[n].link_id), t)
            /\ t # n) => BELONGS_TO_THREAD[<<n, t>>] > 0

\* C5 witness: with a_1 and ab_1 present, a node whose fragment is "a" has
\* got its edge to a_1 and none to ab_1
C5_Witness ==
    /\ completed >= 1
    /\ \E n \in Ids :
          /\ ProcessedParentId(nodes[n].parent_id) = <<"a">>
          /\ <<"a", "b", "_", "1">> \in Ids \ {n}
          /\ <<"a", "_", "1">> \in Ids \ {n}
          /\ REPLIES_TO[<<n, <<"a", "_", "1">>>>] = 1
          /\ REPLIES_TO[<<n, <<"a", "b", "_", "1">>>>] = 0

\* A reference that is absent, empty, the node's own id, or normalizes to
\* the empty fragment
NoUsableParent(n) ==
    \/ nodes[n].parent_id \in {NULL, EmptyStr, n}
    \/ ProcessedParentId(nodes[n].parent_id) = EmptyStr

NoUsableThread(n) ==
    \/ nodes[n].link_id \in {NULL, EmptyStr, n}
    \/ ProcessedThreadId(nodes[n].link_id) = EmptyStr

\* C6: a node with no usable parent_id (link_id) has no outgoing REPLIES_TO
\* (BELONGS_TO_THREAD) edge, and when no node has a usable reference the
\* pass counts nothing.
C6_NoUsableReferenceSkipped ==
    /\ \A n \in Ids :
          /\ NoUsableParent(n) => OutDegree(REPLIES_TO, n) = 0
          /\ NoUsableThread(n) => OutDegree(BELONGS_TO_THREAD, n) = 0
    /\ (\A n \in Ids : NoUsableParent(n)) => replies_count <= 0
    /\ (\A n \in Ids : NoUsableThread(n)) => thread_count <= 0

\* C7: the count a pass reports equals the number of edges of its kind that
\* the pass added to the graph in that run.
C7_CountIsEdgesAdded ==
    /\ replies_count >= 0 => replies_count = replies_added
    /\ thread_count >= 0 => thread_count = threads_added

\* C8: no call ends with an exception reaching the caller.
C8_NoExceptionReachesCaller == outcome # "raised"

\* The indexes the script asks for
RequestedIndexes == {ContentIndex, TopicIndex}

\* C9: a call that returned success leaves no index that has a requested
\* name with another label, property, dimensions or similarity function.
C9_ConflictNotSuccess ==
    (pc = "idle" /\ outcome = "True") =>
        \A request \in RequestedIndexes :
            \A i \in indexes : i.name = request.name => i = request

\* The edges one failure-free run leaves on a graph without edges
FailureFreeReplies == [e \in Ids \X Ids |-> IF e \in ReplyRows THEN 1 ELSE 0]
FailureFreeThreads == [e \in Ids \X Ids |-> IF e \in ThreadRows THEN 1 ELSE 0]

\* C10: no step, failing or not, removes an edge; and whenever a run has
\* returned True, whatever failed before it, the edges are exactly those of
\* one failure-free run on the original graph.
C10_FailureThenRerun ==
    /\ [][\A e \in Ids \X Ids :
              /\ REPLIES_TO'[e] >= REPLIES_TO[e]
              /\ BELONGS_TO_THREAD'[e] >= BELONGS_TO_THREAD[e]]_vars
    /\ []((pc = "idle" /\ outcome = "True") =>
              /\ REPLIES_TO = FailureFreeReplies
              /\ BELONGS_TO_THREAD = FailureFreeThreads)

\* C10 witness: the first run failed after its reply query had written its
\* edges, and the second run has returned True and had none left to add
C10_Witness ==
    /\ runs = 2
    /\ completed = 1
    /\ pc = "idle"
    /\ outcome = "True"
    /\ EdgeCount(REPLIES_TO) > 0
    /\ replies_added = 0
    /\ EdgeCount(BELONGS_TO_THREAD) > 0

====
